---- MODULE Spec2Model ----
(***************************************************************************)
(* The maze-race room server (src/server.js): the in-memory room table,    *)
(* the socket.io message handlers that mutate it, and the messages each    *)
(* handler emits.  One action per handler; a handler runs to completion    *)
(* before the next message is taken (single-threaded event loop).          *)
(***************************************************************************)
EXTENDS Integers, Sequences, FiniteSets, TLC

VARIABLES
    rooms,      \* the room table `rooms`: room code -> room object
    keys,       \* the property order of `rooms`, which for...in follows
    conn,       \* each connection id: "new" (not yet connected), "open", "closed"
    lastMsg,    \* the client message whose handler ran last
    out,        \* the messages that handler emitted, in order
    maze,       \* generateMaze: the local grid `maze` of a call that is followed
    stack,      \* generateMaze: the local `stack` of that call
    gen         \* generateMaze: the arguments of that call and where it stands:
                \* "idle" (no call is followed), "loop", "returned"

serverVars == <<rooms, keys, conn, lastMsg, out>>
mazeVars == <<maze, stack, gen>>
vars == <<rooms, keys, conn, lastMsg, out, maze, stack, gen>>

----------------------------------------------------------------------------
(* Bounds of the model *)

NumConns == 2       \* connection ids 1..NumConns
MaxElapsed == 1     \* a finish is read 0..MaxElapsed ms after the round start
MatchPlayers == 3   \* the match that is followed alone: its maxPlayers
MatchRounds == 5    \* the match that is followed alone: its totalRounds
MaxCellsX == 4      \* generateMaze is called with width 2k+1, k in 2..MaxCellsX
MaxCellsY == 3      \* generateMaze is called with height 2k+1, k in 2..MaxCellsY

Conns == 1..NumConns

(* The odd widths and heights >= 5 of the generateMaze calls followed.      *)
Widths == { 2 * k + 1 : k \in 2..MaxCellsX }
Heights == { 2 * k + 1 : k \in 2..MaxCellsY }

(* generateRoomCode: the alphabet, and the code that four draws             *)
(* Math.floor(Math.random() * characters.length) give.                      *)
characters == << "A", "B", "C", "D", "E", "F", "G", "H", "J", "K", "L", "M",
                 "N", "P", "Q", "R", "S", "T", "U", "V", "W", "X", "Y", "Z",
                 "2", "3", "4", "5", "6", "7", "8", "9" >>
CharAt(k) == characters[k + 1]
CodeOf(draws) == [ i \in 1..Len(draws) |-> CharAt(draws[i]) ]

(* The draws that are followed: those of the code MAZE; in the              *)
(* specification of several rooms, those of the code 2345 as well, which   *)
(* is an integer-like key of the room table.                                *)
RandomDraws == { <<11, 0, 23, 4>> }
LobbyDraws == { <<11, 0, 23, 4>>, <<24, 25, 26, 27>> }

RandomCodes == { CodeOf(d) : d \in RandomDraws }
LobbyCodes == { CodeOf(d) : d \in LobbyDraws }

(* Payload samples.  Strings are sequences of characters, so that parseInt  *)
(* is computed on them.  Every maxPlayers sample parses to a number: a room  *)
(* whose maxPlayers is NaN is never full, its list takes every joinRoom.     *)
MaxPlayersInputs == { <<"2">>, <<"3">>, <<"1">>, <<"0">>, <<" ", "2">>,
                      <<"3", "p">>, <<"0", "x", "2">>, <<"\t", "2">> }
TotalRoundsInputs == { <<"1">>, <<"3">>, <<"0">>, <<"+", "3">>, <<"-", "0">>,
                       <<"n">>,
                       <<"0", "X", "3">>, <<"\n", " ", "3">>, <<"0", "x">> }
Names == { "Ann" }

(* Cells a playerMove reports: the start cell, and a cell next to it.       *)
StartCell == [x |-> 1, y |-> 1]
Positions == { StartCell, [x |-> 1, y |-> 2] }

----------------------------------------------------------------------------
(* JavaScript values *)

(* An absent property (undefined) is <<>>, a present one <<v>>.             *)
Undefined == <<>>
Some(v) == <<v>>
Val(o) == o[1]

(* !!v for a property holding undefined or a boolean.                       *)
Truthy(o) == o = Some(TRUE)

(* A number: NaN is <<>>; an integer n of magnitude up to 2^31 - 1 is       *)
(* <<n>>; a number of larger magnitude is <<sign, digits>>, where sign is   *)
(* 1 or -1 and digits is the decimal expansion of the magnitude, most       *)
(* significant digit first and without leading zeros; Infinity and          *)
(* -Infinity are <<1, <<>>>> and <<-1, <<>>>>.                              *)
NaN == <<>>
Num(n) == <<n>>
IsNaN(v) == v = NaN
IsBig(v) == Len(v) = 2
Infinity(sign) == << sign, << >> >>

(* Comparisons of an integer a, a count or a score of the program, with a   *)
(* number b: every comparison with NaN is false, and a number of larger     *)
(* magnitude is above or below every count by its sign.                     *)
JsGe(a, b) == IF IsBig(b) THEN b[1] < 0 ELSE ~IsNaN(b) /\ a >= Val(b)
JsGt(a, b) == IF IsBig(b) THEN b[1] < 0 ELSE ~IsNaN(b) /\ a > Val(b)
JsLt(a, b) == IF IsBig(b) THEN b[1] > 0 ELSE ~IsNaN(b) /\ a < Val(b)
JsLe(a, b) == IF IsBig(b) THEN b[1] > 0 ELSE ~IsNaN(b) /\ a <= Val(b)
JsStrictEq(a, b) == ~IsBig(b) /\ ~IsNaN(b) /\ a = Val(b)

(* Natural numbers as sequences of decimal digits, most significant first   *)
(* and without leading zeros; zero is the empty sequence.                   *)
IntLimit == <<2, 1, 4, 7, 4, 8, 3, 6, 4, 7>>
TwoTo53 == <<9, 0, 0, 7, 1, 9, 9, 2, 5, 4, 7, 4, 0, 9, 9, 2>>

LessDigits(a, b) ==
    \/ Len(a) < Len(b)
    \/ /\ Len(a) = Len(b)
       /\ \E i \in 1..Len(a) :
              /\ a[i] < b[i]
              /\ \A j \in 1..(i - 1) : a[j] = b[j]

IsOdd(n) == n # << >> /\ n[Len(n)] % 2 = 1

(* The sequence ds without its leading zeros.                               *)
StripZeros(ds) ==
    LET z == Cardinality({ i \in 1..Len(ds) : \A j \in 1..i : ds[j] = 0 })
    IN  SubSeq(ds, z + 1, Len(ds))

(* n * 2: the carry into a digit is 1 when the digit after it is 5 or more. *)
Double(n) ==
    LET body == [ i \in 1..Len(n) |->
                    (2 * n[i] + (IF i < Len(n) /\ n[i + 1] >= 5 THEN 1 ELSE 0)) % 10 ]
    IN  IF n # << >> /\ n[1] >= 5 THEN << 1 >> \o body ELSE body

(* n * 2 + bit, for a bit 0 or 1 *)
DoublePlus(n, bit) ==
    IF n = << >> THEN (IF bit = 0 THEN << >> ELSE << 1 >>)
    ELSE LET d == Double(n) IN [ d EXCEPT ![Len(d)] = @ + bit ]

(* n \div 2: the remainder carried into a digit is 1 when the digit before  *)
(* it is odd.                                                               *)
Halve(n) ==
    LET body == [ i \in 1..Len(n) |->
                    ((IF i > 1 /\ n[i - 1] % 2 = 1 THEN 10 ELSE 0) + n[i]) \div 2 ]
    IN  IF n # << >> /\ n[1] = 1 THEN Tail(body) ELSE body

(* n + 1 *)
PlusOne(n) ==
    LET k == Cardinality({ i \in 1..Len(n) : \A j \in i..Len(n) : n[j] = 9 })
    IN  IF k = Len(n) THEN << 1 >> \o [ i \in 1..k |-> 0 ]
        ELSE [ i \in 1..Len(n) |->
                 IF i < Len(n) - k THEN n[i]
                 ELSE IF i = Len(n) - k THEN n[i] + 1 ELSE 0 ]

(* n * 2^k and n \div 2^k, for k up to 64 *)
RECURSIVE Times2(_, _)
Times2(n, k) == IF k = 0 \/ n = << >> THEN n ELSE Times2(Double(n), k - 1)

RECURSIVE Div2(_, _)
Div2(n, k) == IF k = 0 \/ n = << >> THEN n ELSE Div2(Halve(n), k - 1)

TwoTo61 == Times2(TwoTo53, 8)
TwoTo117 == Times2(TwoTo53, 64)

(* n * 2^e *)
RECURSIVE Doubled(_, _)
Doubled(n, e) ==
    IF e = 0 \/ n = << >> THEN n
    ELSE IF e >= 64 THEN Doubled(Times2(n, 64), e - 64)
    ELSE Times2(n, e)

RECURSIVE ToIntFrom(_, _)
ToIntFrom(n, acc) ==
    IF n = << >> THEN acc ELSE ToIntFrom(Tail(n), acc * 10 + Head(n))

(* The number of magnitude n and sign `sign`.                               *)
ToNumber(sign, n) ==
    IF LessDigits(IntLimit, n) THEN << sign, n >> ELSE Num(sign * ToIntFrom(n, 0))

(* The least e with n \div 2^e below 2^53, and that quotient q.             *)
RECURSIVE Shifted(_, _)
Shifted(q, e) ==
    IF LessDigits(q, TwoTo53) THEN [ q |-> q, e |-> e ]
    ELSE IF ~LessDigits(q, TwoTo117) THEN Shifted(Div2(q, 64), e + 64)
    ELSE IF ~LessDigits(q, TwoTo61) THEN Shifted(Div2(q, 8), e + 8)
    ELSE Shifted(Halve(q), e + 1)

(* The IEEE 754 double nearest to n, as q * 2^e: with t the quotient and    *)
(* the exponent Shifted gives, n is rounded to the nearer of t.q * 2^t.e    *)
(* and (t.q + 1) * 2^t.e, and on a tie, where n is their middle             *)
(* (2 * t.q + 1) * 2^(t.e - 1), to the one with the even significand.       *)
Middle(t) == Doubled(DoublePlus(t.q, 1), t.e - 1)

RoundsUp(n, t) ==
    t.e > 0 /\ (LessDigits(Middle(t), n) \/ (Middle(t) = n /\ IsOdd(t.q)))

Nearest(n, t) == [ q |-> IF RoundsUp(n, t) THEN PlusOne(t.q) ELSE t.q, e |-> t.e ]

Significand(n) == Nearest(n, Shifted(n, 0))

(* The number of sign `sign` and magnitude r.q * 2^r.e; the largest double  *)
(* is (2^53 - 1) * 2^971.                                                   *)
ToDouble(sign, r) ==
    IF r.e > 971 \/ (r.e = 971 /\ r.q = TwoTo53) THEN Infinity(sign)
    ELSE ToNumber(sign, Doubled(r.q, r.e))

(* Math.ceil(v / 2): halving a double of this size is exact.                *)
CeilHalf(v) ==
    IF IsNaN(v) THEN NaN
    ELSE IF IsBig(v)
         THEN IF v[2] = << >> THEN v
              ELSE ToNumber(v[1], IF v[1] > 0 /\ IsOdd(v[2])
                                  THEN PlusOne(Halve(v[2])) ELSE Halve(v[2]))
         ELSE Num((Val(v) \div 2) + (Val(v) % 2))

DigitChars == <<"0", "1", "2", "3", "4", "5", "6", "7", "8", "9">>
LowerChars == <<"a", "b", "c", "d", "e", "f">>
UpperChars == <<"A", "B", "C", "D", "E", "F">>

(* The value of ch as a digit, 0..15; 16 for a character that is none.      *)
DigitVal(ch) ==
    IF \E d \in 1..10 : DigitChars[d] = ch
    THEN (CHOOSE d \in 1..10 : DigitChars[d] = ch) - 1
    ELSE IF \E d \in 1..6 : LowerChars[d] = ch
    THEN (CHOOSE d \in 1..6 : LowerChars[d] = ch) + 9
    ELSE IF \E d \in 1..6 : UpperChars[d] = ch
    THEN (CHOOSE d \in 1..6 : UpperChars[d] = ch) + 9
    ELSE 16
IsDigit(radix, ch) == DigitVal(ch) < radix

(* The characters parseInt strips from the front: WhiteSpace and            *)
(* LineTerminator.  Those a string of this module cannot hold are named:    *)
(* <VT> U+000B, <NBSP> U+00A0, <BOM> U+FEFF, <LS> U+2028, <PS> U+2029, and  *)
(* <Zs> for any other character of the category space separator.            *)
WhiteSpaceChars ==
    { " ", "\t", "\n", "\r", "\f", "<VT>", "<NBSP>", "<BOM>", "<LS>", "<PS>", "<Zs>" }
IsSpace(ch) == ch \in WhiteSpaceChars

(* The string s without its leading white space.                           *)
SkipSpace(s) ==
    LET k == Cardinality({ i \in 1..Len(s) : \A j \in 1..i : IsSpace(s[j]) })
    IN  SubSeq(s, k + 1, Len(s))

(* The values of the longest run of digits of the radix s starts with.      *)
ReadDigits(radix, s) ==
    LET k == Cardinality({ i \in 1..Len(s) : \A j \in 1..i : IsDigit(radix, s[j]) })
    IN  [ i \in 1..k |-> DigitVal(s[i]) ]

(* The number a run of hexadecimal digits denotes: acc * 16 + d for each    *)
(* digit d, as four doublings that take in the bits of d.                   *)
HexShift(acc, d) ==
    DoublePlus(DoublePlus(DoublePlus(DoublePlus(acc, d \div 8), (d \div 4) % 2),
                          (d \div 2) % 2), d % 2)

RECURSIVE FromHex(_, _)
FromHex(ds, acc) ==
    IF ds = << >> THEN acc
    ELSE IF acc = << >> /\ Head(ds) = 0 THEN FromHex(Tail(ds), acc)
    ELSE FromHex(Tail(ds), HexShift(acc, Head(ds)))

(* 10^309 and 16^256 are beyond the largest double.                         *)
RunOverflows(radix, ds) ==
    Len(StripZeros(ds)) > (IF radix = 16 THEN 256 ELSE 309)

(* The number a run of digits denotes.                                      *)
Magnitude(radix, ds) ==
    IF radix = 16 THEN FromHex(ds, << >>) ELSE StripZeros(ds)

(* The double a run of digits gives: its number rounded to the nearest      *)
(* double, Infinity beyond the largest.                                     *)
RunToNumber(sign, radix, ds) ==
    IF RunOverflows(radix, ds) THEN Infinity(sign)
    ELSE ToDouble(sign, Significand(Magnitude(radix, ds)))

(* A prefix 0x or 0X, which parseInt without a radix takes as radix 16.     *)
HasHexPrefix(u) == Len(u) >= 2 /\ u[1] = "0" /\ u[2] \in {"x", "X"}

(* parseInt(s) without a radix: leading white space is skipped, one sign is *)
(* read, a prefix 0x or 0X switches from radix 10 to radix 16 and is        *)
(* skipped, then the longest run of digits of the radix is read; no digit   *)
(* gives NaN.  The result is a double: the mathematical value of the run    *)
(* rounded to the nearest double, Infinity beyond the largest.              *)
ParseInt(s) ==
    LET t == SkipSpace(s)
        signed == t # <<>> /\ Head(t) \in {"-", "+"}
        neg == t # <<>> /\ Head(t) = "-"
        u == IF signed THEN Tail(t) ELSE t
        radix == IF HasHexPrefix(u) THEN 16 ELSE 10
        z == IF HasHexPrefix(u) THEN Tail(Tail(u)) ELSE u
    IN  IF z = <<>> \/ ~IsDigit(radix, Head(z))
        THEN NaN
        ELSE RunToNumber(IF neg THEN -1 ELSE 1, radix, ReadDigits(radix, z))

----------------------------------------------------------------------------
(* Rooms and players *)

colors == << "#FF4136", "#2ECC40", "#0074D9", "#FFDC00", "#B10DC9",
             "#FF851B", "#39CCCC", "#F012BE", "#01FF70", "#AAAAAA" >>

(* The grid a call generateMaze(21, 21) returns, kept by its dimensions and *)
(* by the one passage that leaves its start cell (1,1): the first iteration *)
(* of the loop opens it to the right (maze[1][2] = 0) or down               *)
(* (maze[2][1] = 0), whichever direction the shuffle puts first, and the    *)
(* search is back at (1,1) only when no cell is left to open.               *)
Maze21(first) == [width |-> 21, height |-> 21, first |-> first]

FirstPassages == { "right", "down" }

(* The grids the calls of generateMaze(21, 21) return: one grid where the   *)
(* grid itself plays no part, a grid of either kind in the rounds with      *)
(* moves.                                                                   *)
RoundMazes == { Maze21("right") }
MoveMazes == { Maze21(first) : first \in FirstPassages }

(* A player object as createRoom and joinRoom build it: x, y, finished,     *)
(* lastFinishTime and finishTime are not set yet.                           *)
NewPlayer(c, name, color) ==
    [ id |-> c, name |-> name, score |-> 0, color |-> color,
      x |-> Undefined, y |-> Undefined, finished |-> Undefined,
      lastFinishTime |-> Undefined, finishTime |-> Undefined ]

NewRoom(code, c, name, maxPlayers, totalRounds) ==
    [ id |-> code,
      players |-> << NewPlayer(c, name, "#FF4136") >>,
      maxPlayers |-> ParseInt(maxPlayers),
      totalRounds |-> ParseInt(totalRounds),
      currentRound |-> 1,
      status |-> "waiting",
      maze |-> Undefined,
      startTime |-> Undefined ]

(* The own properties of the table `rooms`: the live rooms.                 *)
Live(code) == code \in DOMAIN rooms

(* `rooms` is an object literal: rooms[roomCode] also finds what every      *)
(* object inherits from Object.prototype, a function or an object none of   *)
(* which has a status or a players property.                                *)
ObjectPrototypeNames ==
    {
      << "c", "o", "n", "s", "t", "r", "u", "c", "t", "o", "r" >>,
      << "_", "_", "p", "r", "o", "t", "o", "_", "_" >>,
      << "_", "_", "d", "e", "f", "i", "n", "e", "G", "e", "t", "t",
         "e", "r", "_", "_" >>,
      << "_", "_", "d", "e", "f", "i", "n", "e", "S", "e", "t", "t",
         "e", "r", "_", "_" >>,
      << "_", "_", "l", "o", "o", "k", "u", "p", "G", "e", "t", "t",
         "e", "r", "_", "_" >>,
      << "_", "_", "l", "o", "o", "k", "u", "p", "S", "e", "t", "t",
         "e", "r", "_", "_" >>,
      << "h", "a", "s", "O", "w", "n", "P", "r", "o", "p", "e", "r",
         "t", "y" >>,
      << "i", "s", "P", "r", "o", "t", "o", "t", "y", "p", "e", "O", "f"
         >>,
      << "p", "r", "o", "p", "e", "r", "t", "y", "I", "s", "E", "n",
         "u", "m", "e", "r", "a", "b", "l", "e" >>,
      << "t", "o", "L", "o", "c", "a", "l", "e", "S", "t", "r", "i",
         "n", "g" >>,
      << "t", "o", "S", "t", "r", "i", "n", "g" >>,
      << "v", "a", "l", "u", "e", "O", "f" >>
    }

Inherited(roomCode) == ~Live(roomCode) /\ roomCode \in ObjectPrototypeNames

(* rooms[roomCode] is truthy: the negation of the handlers' test !room.     *)
Found(roomCode) == Live(roomCode) \/ Inherited(roomCode)

(* players.findIndex(p => p.id === c), 1-based; 0 when there is none.       *)
RECURSIVE FindIndexFrom(_, _, _)
FindIndexFrom(players, c, i) ==
    IF i > Len(players) THEN 0
    ELSE IF players[i].id = c THEN i
    ELSE FindIndexFrom(players, c, i + 1)

FindIndex(players, c) == FindIndexFrom(players, c, 1)

(* players.splice(i, 1) *)
Splice(players, i) ==
    [ j \in 1..(Len(players) - 1) |->
        IF j < i THEN players[j] ELSE players[j + 1] ]

(* Emitted messages *)
ToSocket(c) == <<"socket", c>>
ToRoom(code) == <<"room", code>>
ToRoomExcept(code, c) == <<"roomExcept", code, c>>
Emit(to, event, data) == [to |-> to, event |-> event, data |-> data]

(* A handled message: its event, its sender, the room code it carries, the  *)
(* status that room had when the message arrived ("none": no such room),    *)
(* and the grid generateMaze returned to its handler (undefined when the    *)
(* handler did not call startRound).                                        *)
Msg(type, c, code) ==
    [ type |-> type, conn |-> c, roomCode |-> code,
      status |-> IF code \in DOMAIN rooms THEN rooms[code].status ELSE "none",
      maze |-> Undefined ]

MsgWithMaze(type, c, code, m) == [ Msg(type, c, code) EXCEPT !.maze = Some(m) ]

----------------------------------------------------------------------------
(* startRound(roomCode), on the room object, with m the grid its call of    *)
(* generateMaze(21, 21) returns: the room afterwards and the gameStart it   *)
(* broadcasts.                                                              *)

(* Date.now() is used only through Date.now() - room.startTime, so the      *)
(* clock of a room is read from the start of its latest round: the reading  *)
(* taken by startRound is 0, and playerWon is given the ms elapsed since.   *)
RoundStartTime == 0

StartedPlayers(players) ==
    [ j \in 1..Len(players) |->
        [ players[j] EXCEPT !.x = Some(1), !.y = Some(1),
                            !.finished = Some(FALSE), !.finishTime = Some(0) ] ]

StartedRoomKeepMaze(room, m) ==
    [ room EXCEPT !.status = "playing",
                  !.maze = IF @ = Undefined THEN Some(m) ELSE @,
                  !.startTime = Some(RoundStartTime),
                  !.players = StartedPlayers(room.players) ]
StartedRoom(room, m) ==
    [ room EXCEPT !.status = "playing",
                  !.maze = Some(m),
                  !.startTime = Some(RoundStartTime),
                  !.players = StartedPlayers(room.players) ]

GameStart(code, room) ==
    Emit(ToRoom(code), "gameStart",
         [ maze |-> Val(room.maze), round |-> room.currentRound,
           players |-> room.players, startTime |-> Val(room.startTime),
           roomCode |-> code ])

----------------------------------------------------------------------------
(* Actions.  The handlers run generateMaze to its end inside startRound:    *)
(* they leave the locals of a call that is followed step by step alone.     *)

Init ==
    /\ rooms = << >>
    /\ keys = << >>
    /\ conn = [c \in Conns |-> "new"]
    /\ lastMsg = [ type |-> "none", conn |-> 0, roomCode |-> << >>, status |-> "none",
                   maze |-> Undefined ]
    /\ out = << >>
    /\ maze = << >>
    /\ stack = << >>
    /\ gen = [pc |-> "idle", width |-> 0, height |-> 0]

(* io.on('connection'): a client connects under a fresh socket id.  Socket  *)
(* ids are arbitrary fresh values, so the k-th connection is given id k.    *)
Connect(c) ==
    /\ conn[c] = "new"
    /\ \A b \in 1..(c - 1) : conn[b] # "new"
    /\ conn' = [conn EXCEPT ![c] = "open"]
    /\ lastMsg' = Msg("connection", c, << >>)
    /\ out' = << >>
    /\ UNCHANGED <<rooms, keys>>
    /\ UNCHANGED mazeVars

(* generateRoomCode(), with `codes` the codes its draws may give: it draws  *)
(* again while the code names a live room, so it returns a drawn code that  *)
(* names none.                                                              *)
GenerateRoomCodeUnchecked(codes) == codes
GenerateRoomCodeIn(codes) == { code \in codes : ~Live(code) }

GenerateRoomCode == GenerateRoomCodeIn(RandomCodes)

(* The property order of an object: the integer-like keys (array indices    *)
(* in canonical form, such as the code 2345) in ascending numeric order,    *)
(* then the other string keys in the order of their insertion.  An index   *)
(* is below 2^32 - 1; the keys of `rooms` are codes of four characters.     *)
IsIndexKey(code) ==
    /\ code # << >>
    /\ \A i \in 1..Len(code) : IsDigit(10, code[i])
    /\ (code[1] # "0" \/ Len(code) = 1)
    /\ Len(code) <= 9

RECURSIVE InsertKey(_, _)
InsertKey(order, code) ==
    IF ~IsIndexKey(code) THEN Append(order, code)
    ELSE IF order = << >> THEN << code >>
    ELSE IF ~IsIndexKey(Head(order))
            \/ LessDigits(ReadDigits(10, code), ReadDigits(10, Head(order)))
         THEN << code >> \o order
         ELSE << Head(order) >> \o InsertKey(Tail(order), code)

(* createRoom, with `codes` the codes generateRoomCode's draws may give.    *)
CreateRoomIn(codes, c, playerName, maxPlayers, totalRounds) ==
    /\ conn[c] = "open"
    /\ \E roomCode \in GenerateRoomCodeIn(codes) :
        /\ rooms' = [ k \in DOMAIN rooms \cup {roomCode} |->
                        IF k = roomCode
                        THEN NewRoom(roomCode, c, playerName, maxPlayers, totalRounds)
                        ELSE rooms[k] ]
        /\ keys' = IF roomCode \in DOMAIN rooms THEN keys ELSE InsertKey(keys, roomCode)
        /\ lastMsg' = Msg("createRoom", c, roomCode)
        /\ out' = << Emit(ToSocket(c), "roomCreated",
                          [ roomCode |-> roomCode, isHost |-> TRUE,
                            room |-> rooms'[roomCode] ]) >>
    /\ UNCHANGED conn
    /\ UNCHANGED mazeVars

CreateRoom(c, playerName, maxPlayers, totalRounds) ==
    CreateRoomIn(RandomCodes, c, playerName, maxPlayers, totalRounds)

(* The table with the object of room `code` replaced.                       *)
SetRoom(code, room) == [rooms EXCEPT ![code] = room]

(* joinRoom's checks on a live room, in the order of the code.              *)
NotWaiting(room) == room.status # "waiting"

RoomIsFullStrict(room) ==
    JsGt(Len(room.players), room.maxPlayers)
RoomIsFull(room) == JsGe(Len(room.players), room.maxPlayers)

(* The auto-start condition, on the room after the push.                    *)
ReachedMaxEarly(room) == JsStrictEq(Len(room.players) + 1, room.maxPlayers)
ReachedMax(room) == JsStrictEq(Len(room.players), room.maxPlayers)

PlayerJoined(code, room) ==
    Emit(ToRoom(code), "playerJoined",
         [ players |-> room.players, roomCode |-> code,
           maxPlayers |-> room.maxPlayers ])

(* joinRoom answered with an error: nothing else happens.                   *)
JoinError(c, roomCode, text) ==
    /\ lastMsg' = Msg("joinRoom", c, roomCode)
    /\ out' = << Emit(ToSocket(c), "error", text) >>
    /\ UNCHANGED rooms

(* joinRoom, with `mazes` the grids the generateMaze call of its startRound *)
(* may return.                                                              *)
JoinRoomIn(mazes, c, playerName, roomCode) ==
    /\ conn[c] = "open"
    /\ UNCHANGED <<keys, conn>>
    /\ UNCHANGED mazeVars
    /\ IF ~Found(roomCode)
       THEN JoinError(c, roomCode, "Room not found")
       ELSE IF Inherited(roomCode)
       THEN JoinError(c, roomCode, "Game already in progress")
       ELSE LET room == rooms[roomCode] IN
            IF NotWaiting(room)
            THEN JoinError(c, roomCode, "Game already in progress")
            ELSE IF RoomIsFull(room)
            THEN JoinError(c, roomCode, "Room is full")
            ELSE LET playerColor == colors[(Len(room.players) % Len(colors)) + 1]
                     joined == [ room EXCEPT !.players =
                                   Append(@, NewPlayer(c, playerName, playerColor)) ]
                 IN  IF ReachedMax(joined)
                     THEN \E m \in mazes :
                          /\ lastMsg' = MsgWithMaze("joinRoom", c, roomCode, m)
                          /\ rooms' = SetRoom(roomCode, StartedRoom(joined, m))
                          /\ out' = << PlayerJoined(roomCode, joined),
                                       GameStart(roomCode, StartedRoom(joined, m)) >>
                     ELSE /\ lastMsg' = Msg("joinRoom", c, roomCode)
                          /\ rooms' = SetRoom(roomCode, joined)
                          /\ out' = << PlayerJoined(roomCode, joined) >>

JoinRoom(c, playerName, roomCode) == JoinRoomIn(RoundMazes, c, playerName, roomCode)

(* !room || room.status !== 'playing' *)
NoRoomOrNotPlaying(roomCode) ==
    ~Found(roomCode) \/ Inherited(roomCode) \/ rooms[roomCode].status # "playing"

PlayerMove(c, roomCode, position) ==
    /\ conn[c] = "open"
    /\ lastMsg' = Msg("playerMove", c, roomCode)
    /\ UNCHANGED <<keys, conn>>
    /\ UNCHANGED mazeVars
    /\ IF NoRoomOrNotPlaying(roomCode)
       THEN /\ out' = << >>
            /\ UNCHANGED rooms
       ELSE LET room == rooms[roomCode]
                i == FindIndex(room.players, c)
            IN  /\ rooms' = IF i # 0
                            THEN SetRoom(roomCode,
                                   [ room EXCEPT !.players[i].x = Some(position.x),
                                                 !.players[i].y = Some(position.y) ])
                            ELSE rooms
                /\ out' = << Emit(ToRoomExcept(roomCode, c), "playerMoved",
                                  [ id |-> c, position |-> position ]) >>

----------------------------------------------------------------------------
(* playerWon *)

(* The comparator (a, b) => a.lastFinishTime - b.lastFinishTime; a          *)
(* difference with undefined is NaN, which sort takes as 0.                 *)
CompareTime(a, b) ==
    IF a.lastFinishTime = Undefined \/ b.lastFinishTime = Undefined
    THEN 0
    ELSE Val(a.lastFinishTime) - Val(b.lastFinishTime)

(* One element inserted into a sorted sequence of indices, behind every     *)
(* element that does not compare greater: the sort is stable.               *)
RECURSIVE InsertSorted(_, _, _)
InsertSortedUnstable(players, sorted, i) ==
    IF sorted = << >> THEN << i >>
    ELSE IF CompareTime(players[Head(sorted)], players[i]) >= 0
         THEN << i >> \o sorted
         ELSE << Head(sorted) >> \o InsertSorted(players, Tail(sorted), i)
InsertSorted(players, sorted, i) ==
    IF sorted = << >> THEN << i >>
    ELSE IF CompareTime(players[Head(sorted)], players[i]) > 0
         THEN << i >> \o sorted
         ELSE << Head(sorted) >> \o InsertSorted(players, Tail(sorted), i)

(* [...players].sort(comparator), as the indices into players.              *)
RECURSIVE SortedIndices(_, _)
SortedIndices(players, n) ==
    IF n = 0 THEN << >>
    ELSE InsertSorted(players, SortedIndices(players, n - 1), n)

(* The index of roundWinner: element 0 of the sorted copy.                  *)
RoundWinner(players) == SortedIndices(players, Len(players))[1]

(* player && !player.finished, for the index findIndex gave.                *)
MayFinishAgain(players, i) == i # 0
MayFinish(players, i) == i # 0 /\ ~Truthy(players[i].finished)

SomeFinished(players) == \E j \in 1..Len(players) : Truthy(players[j].finished)
AllFinished(players) == \A j \in 1..Len(players) : Truthy(players[j].finished)

IsGrandWinnerStrict(room, score) ==
    \/ JsGt(score, CeilHalf(room.totalRounds))
    \/ JsStrictEq(room.currentRound, room.totalRounds)
IsGrandWinnerLastRound(room, score) ==
    JsStrictEq(room.currentRound, room.totalRounds)
IsGrandWinner(room, score) ==
    \/ JsGe(score, CeilHalf(room.totalRounds))
    \/ JsStrictEq(room.currentRound, room.totalRounds)

(* playerWon is given `elapsed`, the ms between the round start and its     *)
(* reading of Date.now(), the wall clock: a reading may be below one taken  *)
(* before.  finishTime is (ms) / 1000 seconds, kept as the integer number   *)
(* of thousandths.                                                          *)
PlayerWon(c, roomCode, elapsed) ==
    /\ conn[c] = "open"
    /\ lastMsg' = Msg("playerWon", c, roomCode)
    /\ UNCHANGED <<keys, conn>>
    /\ UNCHANGED mazeVars
    /\ IF ~Found(roomCode) \/ Inherited(roomCode) \/ rooms[roomCode].status # "playing"
       THEN /\ out' = << >>
            /\ UNCHANGED rooms
       ELSE LET room == rooms[roomCode]
                i == FindIndex(room.players, c)
            IN  IF ~MayFinish(room.players, i)
                THEN /\ out' = << >>
                     /\ UNCHANGED rooms
                ELSE LET finishTime == (RoundStartTime + elapsed) - Val(room.startTime)
                         marked == [ room.players EXCEPT
                                       ![i].finished = Some(TRUE),
                                       ![i].lastFinishTime = Some(finishTime) ]
                     IN  IF AllFinished(marked)
                         THEN LET w == RoundWinner(marked)
                                  scored == [ marked EXCEPT ![w].score = @ + 1 ]
                                  grand == IsGrandWinner(room, scored[w].score)
                              IN  /\ rooms' = SetRoom(roomCode,
                                        [ room EXCEPT
                                            !.players = scored,
                                            !.status = IF grand THEN "game_over"
                                                       ELSE "round_over" ])
                                  /\ out' = << Emit(ToRoom(roomCode), "roundResult",
                                        [ winner |-> scored[w],
                                          players |-> scored,
                                          currentRound |-> room.currentRound,
                                          totalRounds |-> room.totalRounds,
                                          isGrandWinner |-> grand ]) >>
                         ELSE /\ rooms' = SetRoom(roomCode,
                                        [ room EXCEPT !.players = marked ])
                              /\ out' = << Emit(ToRoom(roomCode), "playerFinished",
                                        [ playerId |-> c,
                                          finishTime |-> finishTime,
                                          players |-> marked ]) >>

----------------------------------------------------------------------------
(* requestNextRound, requestPlayAgain, disconnect *)

(* requestNextRound's check of the status of a live room.                   *)
NotRoundOverNorGameOver(room) == room.status \notin { "round_over", "game_over" }
NotRoundOver(room) == room.status # "round_over"

(* requestNextRound, with `mazes` the grids the generateMaze call of its    *)
(* startRound may return.                                                   *)
RequestNextRoundIn(mazes, c, roomCode) ==
    /\ conn[c] = "open"
    /\ UNCHANGED <<keys, conn>>
    /\ UNCHANGED mazeVars
    /\ IF ~Found(roomCode) \/ Inherited(roomCode) \/ NotRoundOver(rooms[roomCode])
       THEN /\ lastMsg' = Msg("requestNextRound", c, roomCode)
            /\ out' = << >>
            /\ UNCHANGED rooms
       ELSE LET room == rooms[roomCode] IN
            IF JsLt(room.currentRound, room.totalRounds)
            THEN \E m \in mazes :
                 LET next == StartedRoom([ room EXCEPT !.currentRound = @ + 1 ], m)
                 IN  /\ lastMsg' = MsgWithMaze("requestNextRound", c, roomCode, m)
                     /\ rooms' = SetRoom(roomCode, next)
                     /\ out' = << GameStart(roomCode, next) >>
            ELSE /\ lastMsg' = Msg("requestNextRound", c, roomCode)
                 /\ out' = << >>
                 /\ UNCHANGED rooms

RequestNextRound(c, roomCode) == RequestNextRoundIn(RoundMazes, c, roomCode)

(* The room after "Reset Room Stats".                                       *)
ResetRoomKeepScores(room) == [ room EXCEPT !.currentRound = 1, !.status = "waiting" ]
ResetRoom(room) ==
    [ room EXCEPT !.currentRound = 1,
                  !.players = [ j \in 1..Len(room.players) |->
                                  [ room.players[j] EXCEPT !.score = 0 ] ],
                  !.status = "waiting" ]

(* An exception leaves a handler.  Nothing in server.js catches it: the     *)
(* node process ends, every socket is closed and no message is handled      *)
(* afterwards.                                                              *)
Uncaught == [ c \in DOMAIN conn |-> "closed" ]

(* On an inherited object, room.currentRound = 1 writes a property of that  *)
(* object and room.players.forEach throws a TypeError: players is           *)
(* undefined.                                                               *)
RequestPlayAgain(c, roomCode) ==
    /\ conn[c] = "open"
    /\ lastMsg' = Msg("requestPlayAgain", c, roomCode)
    /\ UNCHANGED keys
    /\ UNCHANGED mazeVars
    /\ IF ~Found(roomCode)
       THEN /\ out' = << >>
            /\ UNCHANGED <<rooms, conn>>
       ELSE IF Inherited(roomCode)
       THEN /\ out' = << >>
            /\ conn' = Uncaught
            /\ UNCHANGED rooms
       ELSE LET reset == ResetRoom(rooms[roomCode])
            IN  /\ rooms' = SetRoom(roomCode, reset)
                /\ out' = << Emit(ToRoom(roomCode), "resetToLobby",
                                  [ players |-> reset.players ]) >>
                /\ UNCHANGED conn

(* The first code, in the table's property order, whose room lists c;       *)
(* << >> when no room does.  for...in visits the keys in the property       *)
(* order, which `keys` holds; this is the order of insertion for the        *)
(* codes of RandomCodes.                                                    *)
FirstRoomOf(c) ==
    LET hits == { k \in 1..Len(keys) : FindIndex(rooms[keys[k]].players, c) # 0 }
    IN  IF hits = {} THEN << >>
        ELSE keys[CHOOSE k \in hits : \A h \in hits : k <= h]

RECURSIVE Without(_, _)
Without(seq, e) ==
    IF seq = << >> THEN << >>
    ELSE IF Head(seq) = e THEN Without(Tail(seq), e)
         ELSE << Head(seq) >> \o Without(Tail(seq), e)

(* room.players.length === 0, on the list after the splice.                 *)
NeverEmpty(left) == FALSE
IsEmpty(left) == Len(left) = 0

Disconnect(c) ==
    /\ conn[c] = "open"
    /\ conn' = [conn EXCEPT ![c] = "closed"]
    /\ lastMsg' = Msg("disconnect", c, << >>)
    /\ UNCHANGED mazeVars
    /\ LET code == FirstRoomOf(c) IN
       IF code = << >>
       THEN /\ out' = << >>
            /\ UNCHANGED <<rooms, keys>>
       ELSE LET room == rooms[code]
                left == Splice(room.players, FindIndex(room.players, c))
            IN  /\ out' = << Emit(ToRoom(code), "playerLeft", [ players |-> left ]) >>
                /\ IF IsEmpty(left)
                   THEN /\ rooms' = [ k \in DOMAIN rooms \ {code} |-> rooms[k] ]
                        /\ keys' = Without(keys, code)
                   ELSE /\ rooms' = SetRoom(code, [ room EXCEPT !.players = left ])
                        /\ UNCHANGED keys

----------------------------------------------------------------------------

(* The messages the server may be sent, with the playerMove cells drawn     *)
(* from `positions`.                                                        *)
NextFor(positions) ==
    \/ \E c \in Conns : Connect(c)
    \/ \E c \in Conns, n \in Names, mp \in MaxPlayersInputs, tr \in TotalRoundsInputs :
          CreateRoom(c, n, mp, tr)
    \/ \E c \in Conns, n \in Names, code \in RandomCodes :
          JoinRoom(c, n, code)
    \/ \E c \in Conns, code \in RandomCodes, pos \in positions : PlayerMove(c, code, pos)
    \/ \E c \in Conns, code \in RandomCodes, elapsed \in 0..MaxElapsed :
          PlayerWon(c, code, elapsed)
    \/ \E c \in Conns, code \in RandomCodes : RequestNextRound(c, code)
    \/ \E c \in Conns, code \in RandomCodes : RequestPlayAgain(c, code)
    \/ \E c \in Conns : Disconnect(c)

(* Every message; a playerMove reports the cell the player stands on.       *)
Next == NextFor({ StartCell })

Spec == Init /\ [][Next]_vars

(* Rounds with moves: every message to rooms created for two players and   *)
(* three rounds; a playerMove reports any cell of Positions, and a round    *)
(* start is given any grid of MoveMazes.                                    *)
MoveNext ==
    \/ \E c \in Conns : Connect(c)
    \/ \E c \in Conns, n \in Names : CreateRoom(c, n, <<"2">>, <<"3">>)
    \/ \E c \in Conns, n \in Names, code \in RandomCodes :
          JoinRoomIn(MoveMazes, c, n, code)
    \/ \E c \in Conns, code \in RandomCodes, pos \in Positions : PlayerMove(c, code, pos)
    \/ \E c \in Conns, code \in RandomCodes, elapsed \in 0..MaxElapsed :
          PlayerWon(c, code, elapsed)
    \/ \E c \in Conns, code \in RandomCodes : RequestNextRoundIn(MoveMazes, c, code)
    \/ \E c \in Conns, code \in RandomCodes : RequestPlayAgain(c, code)
    \/ \E c \in Conns : Disconnect(c)

MoveSpec == Init /\ [][MoveNext]_vars

(* Several rooms: rooms of two, created for one round under the codes of    *)
(* LobbyCodes, are joined, raced in and left.                               *)
LobbyNext ==
    \/ \E c \in Conns : Connect(c)
    \/ \E c \in Conns, n \in Names :
          CreateRoomIn(LobbyCodes, c, n, <<"2">>, <<"1">>)
    \/ \E c \in Conns, n \in Names, code \in LobbyCodes :
          JoinRoom(c, n, code)
    \/ \E c \in Conns, code \in LobbyCodes : PlayerWon(c, code, 0)
    \/ \E c \in Conns : Disconnect(c)

LobbySpec == Init /\ [][LobbyNext]_vars

(* Room codes as a client may send them: a code generateRoomCode gives, or  *)
(* a name every object inherits.  Rooms are created for one round, of two   *)
(* players or of -(2^53 + 1), which parseInt stores as -2^53.               *)
PayloadMaxPlayers ==
    { << "2" >>,
      << "-", "9", "0", "0", "7", "1", "9", "9", "2", "5", "4", "7", "4", "0", "9",
         "9", "3" >> }
InheritedSamples ==
    { << "c", "o", "n", "s", "t", "r", "u", "c", "t", "o", "r" >>,
      << "_", "_", "p", "r", "o", "t", "o", "_", "_" >> }
PayloadCodes == RandomCodes \cup InheritedSamples

PayloadNext ==
    \/ \E c \in Conns : Connect(c)
    \/ \E c \in Conns, n \in Names, mp \in PayloadMaxPlayers :
          CreateRoom(c, n, mp, <<"1">>)
    \/ \E c \in Conns, n \in Names, code \in PayloadCodes :
          JoinRoom(c, n, code)
    \/ \E c \in Conns, code \in PayloadCodes : PlayerMove(c, code, StartCell)
    \/ \E c \in Conns, code \in PayloadCodes : PlayerWon(c, code, 0)
    \/ \E c \in Conns, code \in PayloadCodes : RequestNextRound(c, code)
    \/ \E c \in Conns, code \in PayloadCodes : RequestPlayAgain(c, code)
    \/ \E c \in Conns : Disconnect(c)

PayloadSpec == Init /\ [][PayloadNext]_vars

(* One match on its own: a room created for MatchPlayers players and        *)
(* MatchRounds rounds, each player on a connection of its own, as the       *)
(* joinRoom of its last player has just started round 1.                    *)
MatchConns == 1..MatchPlayers
MatchCode == CHOOSE code \in RandomCodes : TRUE

MatchLobby ==
    LET room == NewRoom(MatchCode, 1, "Ann", << DigitChars[MatchPlayers + 1] >>,
                        << DigitChars[MatchRounds + 1] >>)
    IN  [ room EXCEPT !.players =
            [ j \in MatchConns |->
                IF j = 1 THEN room.players[1]
                ELSE NewPlayer(j, "Ann", colors[((j - 1) % Len(colors)) + 1]) ] ]

MatchInit ==
    /\ \E m \in RoundMazes :
          /\ rooms = [ code \in { MatchCode } |-> StartedRoom(MatchLobby, m) ]
          /\ lastMsg = [ type |-> "joinRoom", conn |-> MatchPlayers,
                         roomCode |-> MatchCode, status |-> "waiting",
                         maze |-> Some(m) ]
          /\ out = << PlayerJoined(MatchCode, MatchLobby),
                      GameStart(MatchCode, StartedRoom(MatchLobby, m)) >>
    /\ keys = << MatchCode >>
    /\ conn = [ c \in MatchConns |-> "open" ]
    /\ maze = << >>
    /\ stack = << >>
    /\ gen = [pc |-> "idle", width |-> 0, height |-> 0]

(* The readings of the clock in the match: the round start, or MaxElapsed   *)
(* ms after it, in any order.                                               *)
MatchReadings == { 0, MaxElapsed }

(* The players finish and ask for the next round; none leaves, and no       *)
(* other message is sent.                                                   *)
MatchNext ==
    \/ \E c \in MatchConns, elapsed \in MatchReadings : PlayerWon(c, MatchCode, elapsed)
    \/ \E c \in MatchConns : RequestNextRound(c, MatchCode)

MatchSpec == MatchInit /\ [][MatchNext]_vars

(* The room of the match under the messages of its clients that reach the  *)
(* round, the scores, the status or the list, in any order: a player may    *)
(* finish, ask for the next round or for a new match at any time, leave,    *)
(* and join the room it is in.  (playerMove, which sets the cell of its     *)
(* sender and nothing else, is followed in Spec and MoveSpec.)              *)
RaceNext ==
    \/ \E c \in MatchConns, n \in Names : JoinRoom(c, n, MatchCode)
    \/ \E c \in MatchConns, elapsed \in MatchReadings : PlayerWon(c, MatchCode, elapsed)
    \/ \E c \in MatchConns : RequestNextRound(c, MatchCode)
    \/ \E c \in MatchConns : RequestPlayAgain(c, MatchCode)
    \/ \E c \in MatchConns : Disconnect(c)

RaceSpec == MatchInit /\ [][RaceNext]_vars

(* The match with players that stay and do not give up: every message of   *)
(* the clients but a disconnect, and while a message that carries the match *)
(* on can be sent (the playerWon of a player who has not finished the       *)
(* round, a requestNextRound after a roundResult that did not end the       *)
(* match), such a message is sent in the end.                               *)
CanFinish(c) ==
    /\ rooms[MatchCode].status = "playing"
    /\ MayFinish(rooms[MatchCode].players, FindIndex(rooms[MatchCode].players, c))

CanAdvance ==
    /\ rooms[MatchCode].status = "round_over"
    /\ JsLt(rooms[MatchCode].currentRound, rooms[MatchCode].totalRounds)

Finish ==
    \E c \in MatchConns :
        CanFinish(c) /\ \E elapsed \in MatchReadings : PlayerWon(c, MatchCode, elapsed)

Advance == CanAdvance /\ \E c \in MatchConns : RequestNextRound(c, MatchCode)

(* Every player of the match sends playerWon in every round, and some       *)
(* client sends requestNextRound after every round that leaves one to play: *)
(* weak fairness of Advance and of Finish.  WF_vars(Finish) is written out  *)
(* with the state predicate that ENABLED <<Finish>>_vars equals here, some  *)
(* player of the round has yet to finish (FinishEnabled states the          *)
(* equality).                                                               *)
MatchFairness ==
    /\ WF_vars(Advance)
    /\ \/ []<>(~ \E c \in MatchConns : CanFinish(c))
       \/ []<><<Finish>>_vars

FinishEnabled == (\E c \in MatchConns : CanFinish(c)) <=> ENABLED <<Finish>>_vars

StayNext ==
    \/ \E c \in MatchConns, n \in Names : JoinRoom(c, n, MatchCode)
    \/ \E c \in MatchConns : PlayerMove(c, MatchCode, StartCell)
    \/ \E c \in MatchConns, elapsed \in MatchReadings : PlayerWon(c, MatchCode, elapsed)
    \/ \E c \in MatchConns : RequestNextRound(c, MatchCode)
    \/ \E c \in MatchConns : RequestPlayAgain(c, MatchCode)

FairMatchSpec == MatchInit /\ [][StayNext]_vars /\ MatchFairness

----------------------------------------------------------------------------
(* generateMaze(width, height), one action per iteration of its loop.       *)

(* The grid: maze[y][x], rows and columns counted from 0; 1 = wall,         *)
(* 0 = path.                                                                *)
NewGridOpenBorder(width, height) ==
    [ y \in 0..(height - 1) |-> [ x \in 0..(width - 1) |->
        IF x = 0 \/ y = 0 \/ x = width - 1 \/ y = height - 1 THEN 0 ELSE 1 ] ]
NewGrid(width, height) ==
    [ y \in 0..(height - 1) |-> [ x \in 0..(width - 1) |-> 1 ] ]

directions == << [x |-> 0, y |-> -2], [x |-> 0, y |-> 2],
                 [x |-> -2, y |-> 0], [x |-> 2, y |-> 0] >>

(* directions.sort(() => Math.random() - 0.5): the comparator answers at    *)
(* random, so the array may be left in any order of its four elements.      *)
Shuffles ==
    { [ k \in 1..4 |-> directions[p[k]] ] :
        p \in { q \in [1..4 -> 1..4] : \A i, j \in 1..4 : q[i] = q[j] => i = j } }

(* The test of a direction, and the entry pushed on validNeighbors.         *)
IsValid(m, width, height, current, dir) ==
    LET nx == current.x + dir.x
        ny == current.y + dir.y
    IN  /\ nx > 0 /\ nx < width - 1 /\ ny > 0 /\ ny < height - 1
        /\ m[ny][nx] = 1

Neighbor(current, dir) ==
    [ nx |-> current.x + dir.x, ny |-> current.y + dir.y,
      dx |-> dir.x \div 2, dy |-> dir.y \div 2 ]

RECURSIVE ValidNeighbors(_, _, _, _, _)
ValidNeighbors(m, width, height, current, dirs) ==
    IF dirs = << >> THEN << >>
    ELSE (IF IsValid(m, width, height, current, Head(dirs))
          THEN << Neighbor(current, Head(dirs)) >> ELSE << >>)
         \o ValidNeighbors(m, width, height, current, Tail(dirs))

(* The two assignments that open `next` and the wall towards it.            *)
CarveCellOnly(m, current, next) == [ m EXCEPT ![next.ny][next.nx] = 0 ]
Carve(m, current, next) ==
    [ m EXCEPT ![next.ny][next.nx] = 0,
               ![current.y + next.dy][current.x + next.dx] = 0 ]

(* The call generateMaze(width, height), up to the first test of the loop.  *)
MazeCall(width, height) ==
    /\ maze = [ NewGrid(width, height) EXCEPT ![1][1] = 0 ]
    /\ stack = << [x |-> 1, y |-> 1] >>
    /\ gen = [pc |-> "loop", width |-> width, height |-> height]

(* One iteration of while (stack.length > 0).                               *)
MazeStep(dirs) ==
    /\ gen.pc = "loop"
    /\ Len(stack) > 0
    /\ LET current == stack[Len(stack)]
           validNeighbors == ValidNeighbors(maze, gen.width, gen.height, current, dirs)
       IN  IF Len(validNeighbors) > 0
           THEN LET next == validNeighbors[1]
                IN  /\ maze' = Carve(maze, current, next)
                    /\ stack' = Append(stack, [x |-> next.nx, y |-> next.ny])
           ELSE /\ stack' = SubSeq(stack, 1, Len(stack) - 1)
                /\ UNCHANGED maze
    /\ UNCHANGED gen
    /\ UNCHANGED serverVars

(* The loop ends: the end point is opened and the grid returned.            *)
MazeReturn ==
    /\ gen.pc = "loop"
    /\ Len(stack) = 0
    /\ maze' = [ maze EXCEPT ![gen.height - 2][gen.width - 2] = 0 ]
    /\ gen' = [ gen EXCEPT !.pc = "returned" ]
    /\ UNCHANGED stack
    /\ UNCHANGED serverVars

(* A call of generateMaze on its own, for each pair of odd sizes.           *)
MazeInit ==
    /\ rooms = << >>
    /\ keys = << >>
    /\ conn = [c \in Conns |-> "new"]
    /\ lastMsg = [ type |-> "none", conn |-> 0, roomCode |-> << >>, status |-> "none",
                   maze |-> Undefined ]
    /\ out = << >>
    /\ \E width \in Widths, height \in Heights : MazeCall(width, height)

MazeNext ==
    \/ \E dirs \in Shuffles : MazeStep(dirs)
    \/ MazeReturn

MazeSpec == MazeInit /\ [][MazeNext]_vars

----------------------------------------------------------------------------
(* Properties.  A step is the handler of one message: lastMsg' names the    *)
(* message, the unprimed variables are the state it arrived in.             *)

Handled(type) == lastMsg'.type = type
Sender == lastMsg'.conn
Addressed == lastMsg'.roomCode
ErrorTo(c, text) == << Emit(ToSocket(c), "error", text) >>

(* The sum of the scores of a player list.                                  *)
RECURSIVE ScoreSum(_)
ScoreSum(players) ==
    IF players = << >> THEN 0
    ELSE Head(players).score + ScoreSum(Tail(players))

(* The events of the messages a handler emitted, in order.                  *)
Events(msgs) == [ k \in 1..Len(msgs) |-> msgs[k].event ]

(* C1: the status of a room changes only along waiting->playing,            *)
(* playing->round_over, round_over->playing, round_over->game_over (or      *)
(* playing->game_over, when the last finish of a match-ending round passes  *)
(* through round_over inside the handler) and game_over->waiting.           *)
StatusEdges ==
    { <<"waiting", "playing">>, <<"playing", "round_over">>,
      <<"round_over", "playing">>, <<"round_over", "game_over">>,
      <<"playing", "game_over">>, <<"game_over", "waiting">> }

C1_StatusEdges ==
    [][ \A code \in DOMAIN rooms \cap DOMAIN rooms' :
            rooms'[code].status # rooms[code].status =>
                <<rooms[code].status, rooms'[code].status>> \in StatusEdges ]_vars

(* C2: every live room has players.length <= maxPlayers.                    *)
C2_PlayersWithinMax ==
    \A code \in DOMAIN rooms :
        JsLe(Len(rooms[code].players), rooms[code].maxPlayers)

(* C3: every live room has currentRound <= totalRounds.                     *)
C3_RoundWithinTotal ==
    \A code \in DOMAIN rooms :
        JsLe(rooms[code].currentRound, rooms[code].totalRounds)

(* A joinRoom arrives for a live room whose list holds exactly maxPlayers.  *)
JoinOnFullRoom ==
    /\ Handled("joinRoom")
    /\ Addressed \in DOMAIN rooms
    /\ JsStrictEq(Len(rooms[Addressed].players), rooms[Addressed].maxPlayers)

PlayersKept(code) ==
    /\ code \in DOMAIN rooms'
    /\ rooms'[code].players = rooms[code].players

(* C4 as claimed: joinRoom on a live room with players.length = maxPlayers  *)
(* sends 'Room is full' to the sender whatever the status, and leaves the   *)
(* player list unchanged.                                                   *)
C4_FullRoomAlwaysRoomFull ==
    [][ JoinOnFullRoom =>
            /\ out' = ErrorTo(Sender, "Room is full")
            /\ PlayersKept(Addressed) ]_vars

(* C4 as amended: joinRoom on a live room with players.length = maxPlayers  *)
(* sends exactly one error to the sender, 'Room is full' when the room is   *)
(* waiting and 'Game already in progress' otherwise, and leaves the player  *)
(* list unchanged.                                                          *)
C4_FullRoomRejected ==
    [][ JoinOnFullRoom =>
            /\ out' = ErrorTo(Sender,
                        IF rooms[Addressed].status = "waiting"
                        THEN "Room is full" ELSE "Game already in progress")
            /\ PlayersKept(Addressed) ]_vars

(* A room of three at its maxPlayers, back in the lobby after a round had   *)
(* started, has just answered a joinRoom 'Room is full'.                    *)
C4_Witness ==
    /\ lastMsg.type = "joinRoom"
    /\ lastMsg.status = "waiting"
    /\ lastMsg.roomCode \in DOMAIN rooms
    /\ rooms[lastMsg.roomCode].maxPlayers = Num(3)
    /\ Len(rooms[lastMsg.roomCode].players) = 3
    /\ rooms[lastMsg.roomCode].maze # Undefined
    /\ out = ErrorTo(lastMsg.conn, "Room is full")

(* C5: joinRoom with a code that names no live room sends 'Room not found', *)
(* joinRoom on a live room that is not waiting sends 'Game already in       *)
(* progress'; either way that error to the sender is the only message and   *)
(* the room table is unchanged.                                             *)
C5_JoinErrors ==
    [][ Handled("joinRoom") =>
            /\ Addressed \notin DOMAIN rooms =>
                  /\ out' = ErrorTo(Sender, "Room not found")
                  /\ rooms' = rooms
            /\ (Addressed \in DOMAIN rooms /\ rooms[Addressed].status # "waiting") =>
                  /\ out' = ErrorTo(Sender, "Game already in progress")
                  /\ rooms' = rooms ]_vars

(* The index of the sender in the addressed room as the message arrives.    *)
SenderIndex == FindIndex(rooms[Addressed].players, Sender)

Broadcasts(code, event) ==
    \E k \in 1..Len(out') : out'[k].to = ToRoom(code) /\ out'[k].event = event

(* C6: a playerWon repeated by a connection within a round changes no room  *)
(* and emits nothing: a playerWon that follows a playerWon of the same      *)
(* connection for the same room does so, a playerWon from a player already  *)
(* finished does so, and a finished player of a connection stays finished,  *)
(* with its time, until a gameStart is broadcast to the room.               *)
C6_FinishIdempotent ==
    [][ /\ ( /\ Handled("playerWon")
             /\ lastMsg.type = "playerWon"
             /\ lastMsg.conn = Sender
             /\ lastMsg.roomCode = Addressed )
          => (rooms' = rooms /\ out' = << >>)
        /\ ( /\ Handled("playerWon")
             /\ Addressed \in DOMAIN rooms
             /\ SenderIndex # 0
             /\ Truthy(rooms[Addressed].players[SenderIndex].finished) )
          => (rooms' = rooms /\ out' = << >>)
        /\ rooms' # rooms =>
           \A code \in DOMAIN rooms \cap DOMAIN rooms', c \in DOMAIN conn :
             LET old == rooms[code].players
                 new == rooms'[code].players
                 i == FindIndex(old, c)
                 k == FindIndex(new, c)
             IN  ( /\ i # 0
                   /\ Truthy(old[i].finished)
                   /\ conn'[c] = "open"
                   /\ ~Broadcasts(code, "gameStart") )
                 => ( /\ k # 0
                      /\ Truthy(new[k].finished)
                      /\ new[k].lastFinishTime = old[i].lastFinishTime ) ]_vars

(* A playing room of three has just dropped the playerWon of its second     *)
(* player, who had finished, while the first has finished too and the       *)
(* third is still racing.                                                   *)
C6_Witness ==
    /\ lastMsg.type = "playerWon"
    /\ lastMsg.status = "playing"
    /\ lastMsg.roomCode \in DOMAIN rooms
    /\ LET ps == rooms[lastMsg.roomCode].players
       IN  /\ Len(ps) = 3
           /\ \A j, k \in 1..3 : ps[j].id = ps[k].id => j = k
           /\ ps[2].id = lastMsg.conn
           /\ Truthy(ps[1].finished)
           /\ Truthy(ps[2].finished)
           /\ ps[3].finished = Some(FALSE)
    /\ out = << >>

(* A playerWon arrives from the last unfinished player of a playing room.   *)
LastFinish ==
    /\ Handled("playerWon")
    /\ Addressed \in DOMAIN rooms
    /\ rooms[Addressed].status = "playing"
    /\ SenderIndex # 0
    /\ \A j \in 1..Len(rooms[Addressed].players) :
          Truthy(rooms[Addressed].players[j].finished) <=> j # SenderIndex

(* w has the least finish time of the list, and is the first to have it.    *)
LeastTimeFirst(players, w) ==
    /\ \A j \in 1..Len(players) :
          Val(players[w].lastFinishTime) <= Val(players[j].lastFinishTime)
    /\ \A j \in 1..(w - 1) :
          Val(players[j].lastFinishTime) # Val(players[w].lastFinishTime)

(* C7: when the last unfinished player finishes, the round winner is the    *)
(* player with the least finish time, the earliest in the list on a tie;    *)
(* that player's score grows by one, every other score is unchanged, and    *)
(* roundResult reports that player.                                         *)
C7_RoundWinner ==
    [][ LastFinish =>
            /\ Addressed \in DOMAIN rooms'
            /\ LET old == rooms[Addressed].players
                   new == rooms'[Addressed].players
               IN  /\ Len(new) = Len(old)
                   /\ \E w \in 1..Len(new) :
                        /\ LeastTimeFirst(new, w)
                        /\ new[w].score = old[w].score + 1
                        /\ \A j \in 1..Len(new) \ {w} : new[j].score = old[j].score
                        /\ Len(out') = 1
                        /\ out'[1].event = "roundResult"
                        /\ out'[1].data.winner = new[w] ]_vars

(* A round of three has just ended with the second and the third player    *)
(* tied below the time of the first: the second player, whose playerWon     *)
(* came last, is reported as the winner and alone has a point.              *)
C7_Witness ==
    /\ lastMsg.type = "playerWon"
    /\ lastMsg.roomCode \in DOMAIN rooms
    /\ Len(out) = 1
    /\ out[1].event = "roundResult"
    /\ LET ps == rooms[lastMsg.roomCode].players
       IN  /\ Len(ps) = 3
           /\ \A j, k \in 1..3 : ps[j].id = ps[k].id => j = k
           /\ Val(ps[2].lastFinishTime) = Val(ps[3].lastFinishTime)
           /\ Val(ps[2].lastFinishTime) < Val(ps[1].lastFinishTime)
           /\ lastMsg.conn = ps[2].id
           /\ out[1].data.winner.id = ps[2].id
           /\ ps[1].score = 0
           /\ ps[2].score = 1
           /\ ps[3].score = 0

(* The match-ending condition on the round result: the winner's updated     *)
(* score is at least ceil(totalRounds / 2), that is twice the score is at   *)
(* least totalRounds, or the round is the last one.                         *)
MatchEnds(result) ==
    /\ ~IsNaN(result.totalRounds)
    /\ \/ JsGe(2 * result.winner.score, result.totalRounds)
       \/ JsStrictEq(result.currentRound, result.totalRounds)

(* C8: at the end of a round the room is game_over and roundResult carries  *)
(* isGrandWinner = true exactly if the winner's updated score >=            *)
(* ceil(totalRounds / 2) or currentRound = totalRounds; otherwise the room  *)
(* is round_over and isGrandWinner = false.                                 *)
C8_MatchEnd ==
    [][ LastFinish =>
            /\ Addressed \in DOMAIN rooms'
            /\ Len(out') = 1
            /\ out'[1].event = "roundResult"
            /\ out'[1].to = ToRoom(Addressed)
            /\ out'[1].data.currentRound = rooms[Addressed].currentRound
            /\ out'[1].data.totalRounds = rooms[Addressed].totalRounds
            /\ IF MatchEnds(out'[1].data)
               THEN /\ rooms'[Addressed].status = "game_over"
                    /\ out'[1].data.isGrandWinner = TRUE
               ELSE /\ rooms'[Addressed].status = "round_over"
                    /\ out'[1].data.isGrandWinner = FALSE ]_vars

(* Round 4 of 5 has just ended the match of three players: its winner has  *)
(* the majority score 3, another player has the point of the remaining      *)
(* round.                                                                   *)
C8_Witness ==
    /\ lastMsg.type = "playerWon"
    /\ lastMsg.roomCode \in DOMAIN rooms
    /\ rooms[lastMsg.roomCode].status = "game_over"
    /\ Len(rooms[lastMsg.roomCode].players) = 3
    /\ Len(out) = 1
    /\ out[1].event = "roundResult"
    /\ out[1].data.isGrandWinner = TRUE
    /\ out[1].data.totalRounds = Num(5)
    /\ out[1].data.currentRound = 4
    /\ out[1].data.winner.score = 3
    /\ ScoreSum(out[1].data.players) = 4

(* A joinRoom has appended a player to the addressed room.                  *)
JoinSucceeds ==
    /\ Handled("joinRoom")
    /\ Addressed \in DOMAIN rooms
    /\ Addressed \in DOMAIN rooms'
    /\ Len(rooms'[Addressed].players) = Len(rooms[Addressed].players) + 1

(* C9: a successful joinRoom that brings players.length to maxPlayers       *)
(* leaves the room playing with a maze, and broadcasts playerJoined and     *)
(* then gameStart; one that leaves players.length < maxPlayers leaves the   *)
(* room waiting and broadcasts playerJoined alone.                          *)
C9_AutoStart ==
    [][ JoinSucceeds =>
            LET room == rooms'[Addressed] IN
            /\ JsStrictEq(Len(room.players), room.maxPlayers) =>
                  /\ room.status = "playing"
                  /\ room.maze # Undefined
                  /\ Len(out') = 2
                  /\ out'[1].event = "playerJoined" /\ out'[1].to = ToRoom(Addressed)
                  /\ out'[2].event = "gameStart" /\ out'[2].to = ToRoom(Addressed)
            /\ JsLt(Len(room.players), room.maxPlayers) =>
                  /\ room.status = "waiting"
                  /\ Len(out') = 1
                  /\ out'[1].event = "playerJoined" ]_vars

(* The third joinRoom has just started the round of a room created for     *)
(* three players, which had stayed waiting with two.                        *)
C9_Witness ==
    /\ lastMsg.type = "joinRoom"
    /\ lastMsg.status = "waiting"
    /\ lastMsg.roomCode \in DOMAIN rooms
    /\ rooms[lastMsg.roomCode].status = "playing"
    /\ rooms[lastMsg.roomCode].maze # Undefined
    /\ rooms[lastMsg.roomCode].maxPlayers = Num(3)
    /\ Len(rooms[lastMsg.roomCode].players) = 3
    /\ rooms[lastMsg.roomCode].players[3].id = lastMsg.conn
    /\ rooms[lastMsg.roomCode].players[1].id # rooms[lastMsg.roomCode].players[2].id
    /\ Len(out) = 2
    /\ out[1].event = "playerJoined"
    /\ Len(out[1].data.players) = 3
    /\ out[2].event = "gameStart"

(* C10: requestPlayAgain on a game_over room sets every score to 0,         *)
(* currentRound to 1 and status to waiting, keeps the members, order, names *)
(* and colors of the player list, maxPlayers and totalRounds, and           *)
(* broadcasts resetToLobby with the list to the room.                       *)
C10_PlayAgain ==
    [][ ( /\ Handled("requestPlayAgain")
          /\ Addressed \in DOMAIN rooms
          /\ rooms[Addressed].status = "game_over" )
        => /\ Addressed \in DOMAIN rooms'
           /\ LET old == rooms[Addressed]
                  new == rooms'[Addressed]
              IN  /\ new.status = "waiting"
                  /\ new.currentRound = 1
                  /\ new.maxPlayers = old.maxPlayers
                  /\ new.totalRounds = old.totalRounds
                  /\ Len(new.players) = Len(old.players)
                  /\ \A j \in 1..Len(new.players) :
                        /\ new.players[j].score = 0
                        /\ new.players[j].id = old.players[j].id
                        /\ new.players[j].name = old.players[j].name
                        /\ new.players[j].color = old.players[j].color
                  /\ out' = << Emit(ToRoom(Addressed), "resetToLobby",
                                    [ players |-> new.players ]) >> ]_vars

(* A room of three whose match had ended is back in the lobby, all scores   *)
(* 0, its three players finished as the last round left them.               *)
C10_Witness ==
    /\ lastMsg.type = "requestPlayAgain"
    /\ lastMsg.status = "game_over"
    /\ lastMsg.roomCode \in DOMAIN rooms
    /\ rooms[lastMsg.roomCode].status = "waiting"
    /\ rooms[lastMsg.roomCode].currentRound = 1
    /\ Len(rooms[lastMsg.roomCode].players) = 3
    /\ \A j \in 1..3 :
          /\ rooms[lastMsg.roomCode].players[j].score = 0
          /\ rooms[lastMsg.roomCode].players[j].id = j
          /\ Truthy(rooms[lastMsg.roomCode].players[j].finished)
    /\ Len(out) = 1
    /\ out[1].event = "resetToLobby"

(* A requestNextRound arrives for a live room that is round_over with       *)
(* currentRound < totalRounds.                                              *)
NextRoundDue ==
    /\ Handled("requestNextRound")
    /\ Addressed \in DOMAIN rooms
    /\ rooms[Addressed].status = "round_over"
    /\ JsLt(rooms[Addressed].currentRound, rooms[Addressed].totalRounds)

(* C11: requestNextRound changes nothing and emits nothing unless the room  *)
(* is round_over with currentRound < totalRounds; when both hold it adds    *)
(* exactly 1 to currentRound, leaves the room playing and broadcasts one    *)
(* gameStart; a requestNextRound that follows a requestNextRound for the    *)
(* same room changes nothing and emits nothing.                             *)
C11_NextRound ==
    [][ Handled("requestNextRound") =>
            /\ ~NextRoundDue => (rooms' = rooms /\ out' = << >>)
            /\ NextRoundDue =>
                  /\ Addressed \in DOMAIN rooms'
                  /\ rooms'[Addressed].currentRound = rooms[Addressed].currentRound + 1
                  /\ rooms'[Addressed].status = "playing"
                  /\ Len(out') = 1
                  /\ out'[1].event = "gameStart"
                  /\ out'[1].to = ToRoom(Addressed)
                  /\ out'[1].data.round = rooms'[Addressed].currentRound
            /\ (lastMsg.type = "requestNextRound" /\ lastMsg.roomCode = Addressed)
                  => (rooms' = rooms /\ out' = << >>) ]_vars

(* Round 3 of 5 has just been started by a requestNextRound on a room of    *)
(* three that was round_over, two points in the room.                       *)
C11_Witness ==
    /\ lastMsg.type = "requestNextRound"
    /\ lastMsg.status = "round_over"
    /\ lastMsg.roomCode \in DOMAIN rooms
    /\ rooms[lastMsg.roomCode].status = "playing"
    /\ rooms[lastMsg.roomCode].currentRound = 3
    /\ rooms[lastMsg.roomCode].totalRounds = Num(5)
    /\ Len(rooms[lastMsg.roomCode].players) = 3
    /\ \A j \in 1..3 : rooms[lastMsg.roomCode].players[j].id = j
    /\ ScoreSum(rooms[lastMsg.roomCode].players) = 2
    /\ Len(out) = 1
    /\ out[1].event = "gameStart"
    /\ out[1].data.round = 3

(* The cells of grid m that are path.                                       *)
PathCells(m) ==
    { cell \in [x : DOMAIN m[0], y : DOMAIN m] : m[cell.y][cell.x] = 0 }

Adjacent(a, b) ==
    \/ a.x = b.x /\ (a.y = b.y + 1 \/ b.y = a.y + 1)
    \/ a.y = b.y /\ (a.x = b.x + 1 \/ b.x = a.x + 1)

(* The flood fill of m from the cells `seen`, over path cells by            *)
(* 4-neighbour steps.                                                       *)
RECURSIVE Flood(_, _)
Flood(m, seen) ==
    LET more == { cell \in PathCells(m) \ seen : \E s \in seen : Adjacent(cell, s) }
    IN  IF more = {} THEN seen ELSE Flood(m, seen \cup more)

(* C12: for odd width and height >= 5 and every sequence of random          *)
(* choices, the grid generateMaze returns has height rows of width cells,   *)
(* its start cell (1,1) and its exit cell (width-2, height-2) are path, and *)
(* the exit is reached from the start by 4-neighbour steps over path cells. *)
C12_ExitReachable ==
    gen.pc = "returned" =>
        LET start == [x |-> 1, y |-> 1]
            exit == [x |-> gen.width - 2, y |-> gen.height - 2]
        IN  /\ DOMAIN maze = 0..(gen.height - 1)
            /\ \A y \in DOMAIN maze : DOMAIN maze[y] = 0..(gen.width - 1)
            /\ maze[start.y][start.x] = 0
            /\ maze[exit.y][exit.x] = 0
            /\ exit \in Flood(maze, { start })

(* generateMaze(7, 5) has returned a grid with the wall between (1,1) and   *)
(* (1,3) left standing: the exit (5,3) is reached through (3,1) and (3,3).  *)
C12_Witness ==
    /\ gen = [pc |-> "returned", width |-> 7, height |-> 5]
    /\ maze[2][1] = 1
    /\ maze[1][2] = 0
    /\ maze[2][3] = 0
    /\ maze[3][4] = 0
    /\ maze[3][5] = 0

(* C13: createRoom assigns a code of exactly 4 characters of the alphabet   *)
(* that names no live room, adds the room under that code and changes no    *)
(* other room; in every state a room's key in the table is its id, so live  *)
(* rooms have pairwise distinct ids.                                        *)
C13_FreshCode ==
    [][ /\ Handled("createRoom") =>
              /\ Addressed \notin DOMAIN rooms
              /\ Len(Addressed) = 4
              /\ \A i \in 1..4 : \E k \in 1..Len(characters) : Addressed[i] = characters[k]
              /\ DOMAIN rooms' = DOMAIN rooms \cup { Addressed }
              /\ \A code \in DOMAIN rooms : rooms'[code] = rooms[code]
        /\ \A code \in DOMAIN rooms' : rooms'[code].id = code ]_vars

(* A second room has just been created while the first, of another          *)
(* connection, is being played.                                             *)
C13_Witness ==
    /\ lastMsg.type = "createRoom"
    /\ Cardinality(DOMAIN rooms) = 2
    /\ \E other \in DOMAIN rooms \ { lastMsg.roomCode } :
          /\ rooms[other].status = "playing"
          /\ rooms[other].players[1].id # lastMsg.conn

(* C14: after the disconnect of a connection is handled, its id is in the   *)
(* player list of no live room.                                             *)
C14_DisconnectRemovesAll ==
    [][ Handled("disconnect") =>
            \A code \in DOMAIN rooms' :
                FindIndex(rooms'[code].players, Sender) = 0 ]_vars

(* C15: every room of the table has at least one player: a disconnect that *)
(* removes the last player of a room deletes the room in the same handler,  *)
(* and a joinRoom for a code rooms are given that names no room, that of a  *)
(* deleted room among them, answers 'Room not found'.                       *)
IsRoomCode(code) ==
    /\ Len(code) = 4
    /\ \A i \in 1..4 : \E k \in 1..Len(characters) : code[i] = characters[k]

C15_NoEmptyRoom ==
    [][ /\ \A code \in DOMAIN rooms' : Len(rooms'[code].players) >= 1
        /\ Handled("disconnect") =>
              \A code \in DOMAIN rooms :
                 ( /\ Len(rooms[code].players) = 1
                   /\ rooms[code].players[1].id = Sender
                   /\ \A other \in DOMAIN rooms \ { code } :
                         FindIndex(rooms[other].players, Sender) = 0 )
                 => code \notin DOMAIN rooms'
        /\ ( /\ Handled("joinRoom")
              /\ IsRoomCode(Addressed)
              /\ Addressed \notin DOMAIN rooms ) =>
              /\ out' = ErrorTo(Sender, "Room not found")
              /\ Addressed \notin DOMAIN rooms' ]_vars

(* A disconnect has just removed the last player of a room and deleted the  *)
(* room, while another connection is open to ask for it.                    *)
C15_Witness ==
    /\ lastMsg.type = "disconnect"
    /\ Len(out) = 1
    /\ out[1].event = "playerLeft"
    /\ out[1].data.players = << >>
    /\ out[1].to[2] \notin DOMAIN rooms
    /\ \E c \in DOMAIN conn : conn[c] = "open"

(* C16: a playerMove or playerWon for a live room that is not playing, and  *)
(* a playerMove, playerWon, requestNextRound or requestPlayAgain with a     *)
(* code that names no live room, is dropped: it changes no room, emits no   *)
(* message and leaves the server serving its connections.                   *)
C16_SilentDrop ==
    [][ ( \/ /\ lastMsg'.type \in { "playerMove", "playerWon" }
              /\ Addressed \in DOMAIN rooms
              /\ rooms[Addressed].status # "playing"
           \/ /\ lastMsg'.type \in { "playerMove", "playerWon",
                                     "requestNextRound", "requestPlayAgain" }
              /\ Addressed \notin DOMAIN rooms )
        => /\ rooms' = rooms
           /\ keys' = keys
           /\ out' = << >>
           /\ conn' = conn ]_vars

(* A roundResult with isGrandWinner = true is broadcast.                    *)
GrandResult ==
    /\ Len(out') = 1
    /\ out'[1].event = "roundResult"
    /\ out'[1].data.isGrandWinner = TRUE

(* The winner a result reports has a majority of the rounds; has a score    *)
(* that no player of the result exceeds; the result is of the last round.   *)
HasMajority(result) ==
    JsGe(2 * result.winner.score, result.totalRounds)
Leads(result) ==
    \A j \in 1..Len(result.players) : result.players[j].score <= result.winner.score
IsLastRound(result) ==
    JsStrictEq(result.currentRound, result.totalRounds)

(* C17: the winner of a roundResult with isGrandWinner = true has           *)
(* score >= ceil(totalRounds / 2) or, the round being the last, a score     *)
(* that no other player exceeds.                                            *)
C17_GrandWinnerLeads ==
    [][ GrandResult =>
            \/ HasMajority(out'[1].data)
            \/ IsLastRound(out'[1].data) /\ Leads(out'[1].data) ]_vars

(* C18: a room whose status is playing has at least one player with         *)
(* finished = false.                                                        *)
C18_PlayingHasUnfinished ==
    \A code \in DOMAIN rooms :
        rooms[code].status = "playing" =>
            \E j \in 1..Len(rooms[code].players) :
                rooms[code].players[j].finished = Some(FALSE)

(* C19: a room whose status is waiting and whose maxPlayers is at least 1   *)
(* has players.length < maxPlayers.                                         *)
C19_WaitingBelowMax ==
    \A code \in DOMAIN rooms :
        ( /\ rooms[code].status = "waiting"
          /\ ~IsNaN(rooms[code].maxPlayers)
          /\ JsLe(1, rooms[code].maxPlayers) )
        => JsLt(Len(rooms[code].players), rooms[code].maxPlayers)

(* A gameStart is broadcast to room `code`.                                 *)
RoundStarts(code) == Broadcasts(code, "gameStart")

(* C20: every round start, by the joinRoom that fills the room and by       *)
(* requestNextRound alike, leaves the room playing with a start time, with  *)
(* the grid generateMaze returned to this very handler as its maze,         *)
(* whatever grid the room had, and with every player at (1,1) and           *)
(* finished = false, and broadcasts exactly one gameStart, which carries    *)
(* that grid and the room's current round; both messages do start a round   *)
(* when their conditions hold, and the playerWon of a player who finished   *)
(* an earlier round counts in the new one.                                  *)
C20_RoundStart ==
    [][ /\ \A code \in DOMAIN rooms' :
              RoundStarts(code) =>
                 LET room == rooms'[code]
                     starts == { k \in 1..Len(out') : out'[k].event = "gameStart" }
                 IN  /\ room.status = "playing"
                     /\ lastMsg'.maze # Undefined
                     /\ room.maze = lastMsg'.maze
                     /\ room.startTime # Undefined
                     /\ \A j \in 1..Len(room.players) :
                           /\ room.players[j].x = Some(1)
                           /\ room.players[j].y = Some(1)
                           /\ room.players[j].finished = Some(FALSE)
                     /\ Cardinality(starts) = 1
                     /\ \A k \in starts :
                           /\ out'[k].to = ToRoom(code)
                           /\ out'[k].data.round = room.currentRound
                           /\ out'[k].data.players = room.players
                           /\ out'[k].data.maze = Val(lastMsg'.maze)
        /\ NextRoundDue => RoundStarts(Addressed)
        /\ ( /\ JoinSucceeds
             /\ JsStrictEq(Len(rooms'[Addressed].players), rooms'[Addressed].maxPlayers) )
           => RoundStarts(Addressed)
        /\ ( /\ Handled("playerWon")
             /\ Addressed \in DOMAIN rooms
             /\ rooms[Addressed].status = "playing"
             /\ SenderIndex # 0
             /\ rooms[Addressed].players[SenderIndex].lastFinishTime # Undefined
             /\ rooms[Addressed].players[SenderIndex].finished = Some(FALSE) )
           => /\ Len(out') = 1
              /\ out'[1].event \in { "playerFinished", "roundResult" }
              /\ rooms'[Addressed].players[SenderIndex].finished = Some(TRUE) ]_vars

(* Round 2 has just been started in a room of two whose players had both    *)
(* finished round 1: the room has the grid generateMaze returned, one whose *)
(* first passage runs down, and both players are at (1,1), unfinished,      *)
(* with the finish times of round 1 still on record.                        *)
C20_Witness ==
    /\ lastMsg.type = "requestNextRound"
    /\ lastMsg.status = "round_over"
    /\ lastMsg.roomCode \in DOMAIN rooms
    /\ lastMsg.maze = Some(Maze21("down"))
    /\ LET room == rooms[lastMsg.roomCode]
       IN  /\ room.status = "playing"
           /\ room.maze = Some(Maze21("down"))
           /\ room.currentRound = 2
           /\ Len(room.players) = 2
           /\ \A j \in 1..2 :
                 /\ room.players[j].x = Some(1)
                 /\ room.players[j].y = Some(1)
                 /\ room.players[j].finished = Some(FALSE)
                 /\ room.players[j].lastFinishTime # Undefined
    /\ Len(out) = 1
    /\ out[1].event = "gameStart"
    /\ out[1].data.round = 2

(* A playerWon arrives from a player of a playing room who has not finished.*)
EffectiveFinish ==
    /\ Handled("playerWon")
    /\ Addressed \in DOMAIN rooms
    /\ rooms[Addressed].status = "playing"
    /\ SenderIndex # 0
    /\ ~Truthy(rooms[Addressed].players[SenderIndex].finished)

(* C21: in a playing room, an effective finish that is not the last         *)
(* broadcasts exactly one playerFinished and no roundResult, and changes no *)
(* score; the finish that makes all players finished broadcasts exactly one *)
(* roundResult and no playerFinished, adds exactly 1 to the sum of the      *)
(* scores and takes the room out of playing, so that the round has no       *)
(* second roundResult; every other message (a duplicate playerWon among     *)
(* them) broadcasts neither and changes no score.                           *)
C21_OneResultPerRound ==
    [][ /\ EffectiveFinish =>
              /\ Addressed \in DOMAIN rooms'
              /\ IF LastFinish
                 THEN /\ Events(out') = << "roundResult" >>
                      /\ ScoreSum(rooms'[Addressed].players)
                           = ScoreSum(rooms[Addressed].players) + 1
                      /\ rooms'[Addressed].status \in { "round_over", "game_over" }
                 ELSE /\ Events(out') = << "playerFinished" >>
                      /\ [ j \in 1..Len(rooms'[Addressed].players) |->
                              rooms'[Addressed].players[j].score ]
                          = [ j \in 1..Len(rooms[Addressed].players) |->
                              rooms[Addressed].players[j].score ]
                      /\ rooms'[Addressed].status = "playing"
        /\ ~EffectiveFinish =>
              /\ \A k \in 1..Len(out') :
                    out'[k].event \notin { "roundResult", "playerFinished" }
              /\ \A code \in DOMAIN rooms \cap DOMAIN rooms' :
                    ScoreSum(rooms'[code].players) <= ScoreSum(rooms[code].players) ]_vars

(* Round 2 of a match of MatchPlayers players has just ended with its one   *)
(* roundResult: two rounds, two points in the room.                         *)
C21_Witness ==
    /\ lastMsg.type = "playerWon"
    /\ lastMsg.status = "playing"
    /\ Events(out) = << "roundResult" >>
    /\ out[1].data.currentRound = 2
    /\ Len(out[1].data.players) = MatchPlayers
    /\ ScoreSum(out[1].data.players) = 2

(* C22: a match whose players stay, finish every round and ask for the     *)
(* next one reaches game_over, with at most totalRounds roundResult         *)
(* broadcasts on the way: a roundResult is broadcast alone, to a room that  *)
(* was playing and is not afterwards, for the room's currentRound, a round  *)
(* of 1..totalRounds, and the room starts a round again only with           *)
(* currentRound raised by one, so that no round has two results.            *)
C22_MatchTerminates ==
    /\ <>(rooms[MatchCode].status = "game_over")
    /\ [][ /\ (\E k \in 1..Len(out') : out'[k].event = "roundResult") =>
                /\ Events(out') = << "roundResult" >>
                /\ rooms[MatchCode].status = "playing"
                /\ rooms'[MatchCode].status # "playing"
                /\ out'[1].data.currentRound = rooms[MatchCode].currentRound
                /\ rooms[MatchCode].currentRound >= 1
                /\ JsLe(rooms[MatchCode].currentRound, rooms[MatchCode].totalRounds)
          /\ ( /\ rooms[MatchCode].status # "playing"
               /\ rooms'[MatchCode].status = "playing" ) =>
                rooms'[MatchCode].currentRound = rooms[MatchCode].currentRound + 1
       ]_vars

(* C23: for odd width and height >= 5 and every sequence of random          *)
(* choices, the grid generateMaze returns is a perfect maze: every cell     *)
(* with odd x and odd y inside the border is path, the path cells are       *)
(* connected by 4-neighbour steps and have no cycle (they are one more than *)
(* the pairs of neighbouring path cells: a tree), and every cell of the     *)
(* outer border is wall.                                                    *)
OddCells(width, height) ==
    { cell \in [x : 1..(width - 2), y : 1..(height - 2)] :
        cell.x % 2 = 1 /\ cell.y % 2 = 1 }

BorderCells(width, height) ==
    { cell \in [x : 0..(width - 1), y : 0..(height - 1)] :
        cell.x = 0 \/ cell.y = 0 \/ cell.x = width - 1 \/ cell.y = height - 1 }

Passages(m) ==
    { pair \in PathCells(m) \X PathCells(m) :
        /\ Adjacent(pair[1], pair[2])
        /\ (pair[1].y < pair[2].y \/ pair[1].x < pair[2].x) }

C23_PerfectMaze ==
    gen.pc = "returned" =>
        /\ \A cell \in OddCells(gen.width, gen.height) : maze[cell.y][cell.x] = 0
        /\ \A cell \in BorderCells(gen.width, gen.height) : maze[cell.y][cell.x] = 1
        /\ Flood(maze, { [x |-> 1, y |-> 1] }) = PathCells(maze)
        /\ Cardinality(Passages(maze)) = Cardinality(PathCells(maze)) - 1

(* generateMaze(9, 7) has returned a grid whose first passage runs down     *)
(* from (1,1), the wall between (1,1) and (3,1) left standing: its twelve   *)
(* odd cells and the eleven walls opened between them are its path cells.   *)
C23_Witness ==
    /\ gen = [pc |-> "returned", width |-> 9, height |-> 7]
    /\ maze[2][1] = 0
    /\ maze[1][2] = 1
    /\ Cardinality(PathCells(maze)) = 23
    /\ Cardinality(Passages(maze)) = 22

(* C24: a playerMove, playerWon, requestNextRound or requestPlayAgain sent  *)
(* by a connection whose id is not in the player list of the room it        *)
(* addresses never changes that room's status, currentRound or maze, nor    *)
(* the score, position or finished flag of any of its players.              *)
RaceFields(players) ==
    [ j \in 1..Len(players) |->
        [ score |-> players[j].score, x |-> players[j].x, y |-> players[j].y,
          finished |-> players[j].finished ] ]

FromNonMember ==
    /\ \/ Handled("playerMove") \/ Handled("playerWon")
       \/ Handled("requestNextRound") \/ Handled("requestPlayAgain")
    /\ Live(Addressed)
    /\ SenderIndex = 0

C24_NonMembersChangeNothing ==
    [][ FromNonMember =>
            /\ Addressed \in DOMAIN rooms'
            /\ rooms'[Addressed].status = rooms[Addressed].status
            /\ rooms'[Addressed].currentRound = rooms[Addressed].currentRound
            /\ rooms'[Addressed].maze = rooms[Addressed].maze
            /\ RaceFields(rooms'[Addressed].players) = RaceFields(rooms[Addressed].players)
      ]_vars

(* C25: in every room created with totalRounds >= 1, the score of every     *)
(* player is between 0 and ceil(totalRounds / 2), and the scores of the     *)
(* room's players add up to at most currentRound.                           *)
C25_ScoreBounds ==
    \A code \in DOMAIN rooms :
        LET room == rooms[code]
        IN  JsLe(1, room.totalRounds) =>
                /\ \A j \in 1..Len(room.players) :
                      /\ room.players[j].score >= 0
                      /\ JsLe(room.players[j].score, CeilHalf(room.totalRounds))
                /\ ScoreSum(room.players) <= room.currentRound

(* A match of three players and five rounds is over after its last round:  *)
(* the third player has score 3 = ceil(5 / 2), the others a point each, and *)
(* the scores add up to the round.                                          *)
C25_Witness ==
    \E code \in DOMAIN rooms :
        /\ rooms[code].totalRounds = Num(5)
        /\ rooms[code].status = "game_over"
        /\ rooms[code].currentRound = 5
        /\ Len(rooms[code].players) = 3
        /\ rooms[code].players[1].score = 1
        /\ rooms[code].players[2].score = 1
        /\ rooms[code].players[3].score = 3
        /\ ScoreSum(rooms[code].players) = 5

====
